---- MODULE Spec2Model ----
(***************************************************************************)
(* media_toolkit: the analyzer (scan, duplicate detection, manifest), the  *)
(* migrator (hash-verified copy with audit sidecars) and the verifier.     *)
(*                                                                         *)
(* SpecScan runs the analyzer over a bounded source tree.                  *)
(* Spec runs the migrator (up to MaxRuns times) and then the verifier over *)
(* a manifest the analyzer produces.                                       *)
(***************************************************************************)
EXTENDS Integers, Sequences, FiniteSets, TLC

\* ------------------------------------------------------------------ bounds
MaxFiles == 2
MaxDate == 2
MaxRuns == 2

\* ------------------------------------------------------- program constants
\* duplicates.min_size_bytes default (analyzer.py:178)
MinSizeBytes == 1048576

\* ------------------------------------------------------------------- paths
\* A path is a sequence of tokens; str(path) is their concatenation.
Dirs == {"A", "B"}
Exts == {".mp4", ".mov"}
PathOf(d, x) == <<"/", d, "/", "c", x>>
Paths == {PathOf(d, x) : d \in Dirs, x \in Exts}

\* The source tree: where the n-th file of the walk lives, below the source root.
SourcePaths ==
    <<PathOf("A", ".mp4"), PathOf("B", ".mp4"), PathOf("A", ".mov"), PathOf("B", ".mov")>>

SourceRoot == "src"
Roots == {"src", "nas"}
AbsPaths == Roots \X Paths

\* self.target_root / media_file['target_path'].lstrip('/')
TargetOf(root, rel) == <<root, rel>>

\* Path.with_suffix
WithSuffix(rel, suffix) == SubSeq(rel, 1, Len(rel) - 1) \o <<suffix>>

\* _create_sidecar: where the sidecar of a destination goes, below
\* <target_root>/Catalog/sidecars
SidecarPath(rel) == WithSuffix(rel, ".yaml")
SidecarPaths == {SidecarPath(p) : p \in Paths}

\* ------------------------------------------------------------ file contents
\* What a path of the filesystem holds: nothing, a file that cannot be opened,
\* bytes that belong to no source file (a partial or damaged copy), or the
\* bytes of a source file.  "tiny" is a content shorter than MinSizeBytes.
Contents == {"tiny", "c1", "c2"}
FileStates == Contents \cup {"absent", "locked", "garbage"}

SizeOf(c) == IF c = "tiny" THEN MinSizeBytes - 1 ELSE MinSizeBytes

Exists(fsys, p) == fsys[p] # "absent"
Readable(fsys, p) == fsys[p] \notin {"absent", "locked"}

\* compute_file_hash: the digest of the bytes at p (the caller has checked that
\* the file can be opened; open() raises otherwise).
ComputeFileHash(fsys, p) == "b3:" \o fsys[p]

\* verify_file_hash that only tests that the file can be opened
VerifyFileHashOpenOnly(fsys, p, expected) == Readable(fsys, p)

\* verify_file_hash
VerifyFileHash(fsys, p, expected) == ComputeFileHash(fsys, p) = expected

DryRunHash == "DRY_RUN"
Digests == {"b3:" \o c : c \in Contents}

\* ------------------------------------------------------------------ config
\* duplicates.priority
PriorityPatterns == << <<"*", "/", "A", "/", "*">>, <<"*", ".mp4">> >>

\* fnmatch.fnmatch over tokens: "*" matches any run of tokens.
RECURSIVE FnMatch(_, _)
FnMatch(name, pat) ==
    IF pat = <<>> THEN name = <<>>
    ELSE IF Head(pat) = "*"
         THEN FnMatch(name, Tail(pat)) \/ (name # <<>> /\ FnMatch(Tail(name), pat))
         ELSE name # <<>> /\ Head(name) = Head(pat) /\ FnMatch(Tail(name), Tail(pat))

\* ---------------------------------------------------------------- variables
VARIABLES
    fs,               \* the filesystem: AbsPaths -> FileStates
    target_root,      \* --target of migrate and verify
    all_files,        \* scan: the walk's list of media files, in walk order
    dry_run,          \* scan --dry-run
    files,            \* MediaAnalyzer.files
    hash_index,       \* MediaAnalyzer.hash_index: digest -> indices into files
    total_bytes,      \* MediaAnalyzer.total_bytes
    errors,           \* MediaAnalyzer.errors
    total_duplicates, \* detect_duplicates: members that are not their group's primary
    pc,               \* where the analyzer is
    i,                \* scan: index into all_files
    manifest,         \* migration_manifest.json
    run,              \* number of migrate runs started
    m_pc,             \* where the migrator is
    k,                \* migrate: index into files_to_migrate
    copied_count, skipped_count, failed_count,
    m_errors,         \* MediaMigrator.errors
    sidecars,         \* Catalog/sidecars: sidecar path -> sidecar document
    prev,             \* what the previous migrate run left: filesystem and counts
    v_pc,             \* where the verifier is
    verified_count, missing_count, corrupted_count,
    v_errors,         \* MigrationVerifier.errors
    safe,             \* verify printed "Safe to clean SSD"
    m_exit,           \* exit status of the migrate process (NotExited while it runs)
    killed,           \* number of migrate processes killed before they ended
    v_exit,           \* exit status of the verify process
    peer,             \* a second migrate process on the same plan and target
    r_pc,             \* where the path resolver is
    r_cfg,            \* the resolver's configuration (device_mappings.yaml)
    r_path,           \* the logical path of the file being resolved
    r_date,           \* its creation date
    r_device,         \* _determine_device's result
    r_target          \* _determine_target_path's result

analyzer_vars == <<all_files, dry_run, files, hash_index, total_bytes, errors,
                   total_duplicates, pc, i, manifest>>
migrator_vars == <<run, m_pc, k, copied_count, skipped_count, failed_count,
                   m_errors, sidecars, prev, m_exit, killed>>
verifier_vars == <<v_pc, verified_count, missing_count, corrupted_count,
                   v_errors, safe, v_exit>>
resolver_vars == <<r_pc, r_cfg, r_path, r_date, r_device, r_target>>
vars == <<fs, target_root, analyzer_vars, migrator_vars, verifier_vars, peer,
          resolver_vars>>

\* ================================================================ analyzer

NoGroup == "none"

\* What stat, ffprobe and the path resolver answer for one file of the walk.
\* creation_date 1..MaxDate; datetime.now() is later than every file's date.
Now == MaxDate + 1

SourceOf(f) == <<SourceRoot, f.path>>

\* MediaFile(...) as _process_file builds it
NewMediaFile(f, size, digest, date) ==
    [source_path |-> SourceOf(f), size_bytes |-> size, hash |-> digest,
     creation_date |-> date, target_path |-> f.target,
     is_duplicate |-> FALSE, duplicate_group_id |-> NoGroup]

\* _process_file: "file" with the MediaFile, "skip" (returns None: below the
\* minimum size), or "error" (an exception, caught and recorded).
ProcessFile(fsys, f) ==
    LET p == SourceOf(f) IN
    IF ~Exists(fsys, p) THEN [kind |-> "error"]
    ELSE IF SizeOf(fsys[p]) < MinSizeBytes THEN [kind |-> "skip"]
    ELSE IF ~Readable(fsys, p) THEN [kind |-> "error"]
    ELSE [kind |-> "file",
          file |-> NewMediaFile(f, SizeOf(fsys[p]), ComputeFileHash(fsys, p),
                                f.creation_date)]

\* scan, dry-run branch: no size test, no hashing; stat() is not guarded.
DryRunFile(fsys, f) ==
    LET p == SourceOf(f) IN
    IF ~Exists(fsys, p) THEN [kind |-> "raise"]
    ELSE [kind |-> "file",
          file |-> NewMediaFile(f, SizeOf(fsys[p]), DryRunHash, Now)]

\* One iteration of scan's processing loop over the analyzer's state st.
ScanOne(st, fsys, f, dry) ==
    LET r == IF dry THEN DryRunFile(fsys, f) ELSE ProcessFile(fsys, f) IN
    CASE r.kind = "raise" -> [st EXCEPT !.aborted = TRUE]
      [] r.kind = "error" ->
            [st EXCEPT !.errors = Append(@, <<"Error processing", SourceOf(f)>>)]
      [] r.kind = "skip" -> st
      [] r.kind = "file" ->
            [st EXCEPT !.files = Append(@, r.file),
                       !.total_bytes = @ + r.file.size_bytes,
                       !.hash_index =
                           IF dry THEN @
                           ELSE [@ EXCEPT ![r.file.hash] = Append(@, Len(st.files) + 1)]]

EmptyIndex == [h \in Digests |-> <<>>]
EmptyAnalyzer ==
    [files |-> <<>>, hash_index |-> EmptyIndex, total_bytes |-> 0, errors |-> <<>>,
     aborted |-> FALSE]

\* ---- _select_primary_duplicate

\* the score loop: len(priority_patterns) - i for the first matching pattern
RECURSIVE ScoreFrom(_, _)
ScoreFrom(path, n) ==
    IF n > Len(PriorityPatterns) THEN 0
    ELSE IF FnMatch(path, PriorityPatterns[n]) THEN Len(PriorityPatterns) - (n - 1)
    ELSE ScoreFrom(path, n + 1)

Score(mf) == ScoreFrom(mf.target_path, 1)

\* KeyLess with the key's two parts swapped: (creation_date, -score)
KeyLessDateFirst(a, b) ==
    \/ a.date < b.date
    \/ a.date = b.date /\ a.score > b.score

\* the sort key (-score, creation_date); a is strictly before b
KeyLess(a, b) ==
    \/ a.score > b.score
    \/ a.score = b.score /\ a.date < b.date

\* list.sort is stable: insert x after every element that is not after it
RECURSIVE Insert(_, _)
Insert(sorted, x) ==
    IF sorted = <<>> THEN <<x>>
    ELSE IF KeyLess(x, Head(sorted)) THEN <<x>> \o sorted
    ELSE <<Head(sorted)>> \o Insert(Tail(sorted), x)

RECURSIVE StableSort(_)
StableSort(s) ==
    IF s = <<>> THEN <<>>
    ELSE Insert(StableSort(SubSeq(s, 1, Len(s) - 1)), s[Len(s)])

\* group: indices into fl, in the order scan appended them; the primary's index
SelectPrimary(fl, group) ==
    LET scored == [n \in 1..Len(group) |->
                     [score |-> Score(fl[group[n]]),
                      date |-> fl[group[n]].creation_date,
                      idx |-> group[n]]]
    IN StableSort(scored)[1].idx

\* ---- detect_duplicates

GroupOf(index, n) ==
    LET hs == {h \in DOMAIN index : \E m \in 1..Len(index[h]) : index[h][m] = n} IN
    IF hs = {} THEN <<>> ELSE index[CHOOSE h \in hs : TRUE]

\* the flags detect_duplicates leaves on the files
MarkDuplicates(fl, index) ==
    [n \in 1..Len(fl) |->
        IF Len(GroupOf(index, n)) > 1
        THEN [fl[n] EXCEPT !.is_duplicate = TRUE, !.duplicate_group_id = fl[n].hash]
        ELSE fl[n]]

\* total_duplicates: the members that are not their group's primary
CountDuplicates(fl, index) ==
    Cardinality({n \in 1..Len(fl) :
        /\ Len(GroupOf(index, n)) > 1
        /\ n # SelectPrimary(fl, GroupOf(index, n))})

\* generate_manifest
ManifestOf(fl, bytes) ==
    [files |-> fl, total_files |-> Len(fl), total_size_bytes |-> bytes]

NoManifest == ManifestOf(<<>>, 0)

\* ---- the analyzer's steps

ScanFile ==
    /\ pc = "scan"
    /\ i <= Len(all_files)
    /\ LET st == ScanOne([files |-> files, hash_index |-> hash_index,
                          total_bytes |-> total_bytes, errors |-> errors,
                          aborted |-> FALSE],
                         fs, all_files[i], dry_run)
       IN /\ files' = st.files
          /\ hash_index' = st.hash_index
          /\ total_bytes' = st.total_bytes
          /\ errors' = st.errors
          /\ pc' = IF st.aborted THEN "aborted" ELSE "scan"
          /\ i' = IF st.aborted THEN i ELSE i + 1
    /\ UNCHANGED <<fs, target_root, all_files, dry_run, total_duplicates, manifest,
                   migrator_vars, verifier_vars, peer, resolver_vars>>

\* main: detect_duplicates is skipped in dry-run
ScanEnd ==
    /\ pc = "scan"
    /\ i > Len(all_files)
    /\ pc' = IF dry_run THEN "manifest" ELSE "detect"
    /\ UNCHANGED <<fs, target_root, all_files, dry_run, files, hash_index, total_bytes,
                   errors, total_duplicates, i, manifest, migrator_vars, verifier_vars, peer, resolver_vars>>

DetectDuplicates ==
    /\ pc = "detect"
    /\ files' = MarkDuplicates(files, hash_index)
    /\ total_duplicates' = CountDuplicates(files, hash_index)
    /\ pc' = "manifest"
    /\ UNCHANGED <<fs, target_root, all_files, dry_run, hash_index, total_bytes, errors,
                   i, manifest, migrator_vars, verifier_vars, peer, resolver_vars>>

GenerateManifest ==
    /\ pc = "manifest"
    /\ manifest' = ManifestOf(files, total_bytes)
    /\ pc' = "done"
    /\ UNCHANGED <<fs, target_root, all_files, dry_run, files, hash_index, total_bytes,
                   errors, total_duplicates, i, migrator_vars, verifier_vars, peer, resolver_vars>>

\* ---- the inputs

\* The n-th file of the walk: where it lives, what it holds when it is read
\* ("absent": it has vanished since the walk listed it, or is a dangling link),
\* the creation date ffprobe or stat gives, and the destination the resolver gives.
FileChoices(cs, ds, ts) == [content : cs, creation_date : ds, target : ts]

\* the walk whose n-th file, at SourcePaths[n], is as c[n] says
WalkOf(c) ==
    [n \in 1..Len(c) |->
        [path |-> SourcePaths[n], content |-> c[n].content,
         creation_date |-> c[n].creation_date, target |-> c[n].target]]

\* w is a walk of 1..MaxFiles files
IsWalk(w, cs, ds, ts) ==
    \E n \in 1..MaxFiles : \E c \in [1..n -> FileChoices(cs, ds, ts)] : w = WalkOf(c)

EmptyFs == [p \in AbsPaths |-> "absent"]

\* The filesystem that holds the walk's files, and cannot open the locked
\* destinations
FsOf(walk, locked) ==
    [p \in AbsPaths |->
        IF \E n \in 1..Len(walk) : p = SourceOf(walk[n])
        THEN walk[CHOOSE n \in 1..Len(walk) : p = SourceOf(walk[n])].content
        ELSE IF p[1] # SourceRoot /\ p[2] \in locked THEN "locked"
        ELSE "absent"]

\* no sidecar at a sidecar path
NoSidecar == [id |-> "none"]

\* The process has not ended
NotExited == -1

\* The exit status of a click command run as a script: 0 when main returns,
\* 1 when an exception leaves it.  migrate() and verify() catch every per-entry
\* exception and neither main calls sys.exit.
ExitStatus(raised) == IF raised THEN 1 ELSE 0

\* No second migrate process
PeerIdle == [pc |-> "idle", k |-> 1, copied |-> 0, skipped |-> 0, failed |-> 0,
             errors |-> <<>>]

\* The resolver is not in use
ResolverIdle ==
    /\ r_pc = "idle"
    /\ r_cfg = "none"
    /\ r_path = <<>>
    /\ r_date = 0
    /\ r_device = "none"
    /\ r_target = <<>>

MigratorIdle ==
    /\ run = 0
    /\ m_pc = "idle"
    /\ k = 1
    /\ copied_count = 0
    /\ skipped_count = 0
    /\ failed_count = 0
    /\ m_errors = <<>>
    /\ sidecars = [p \in SidecarPaths |-> NoSidecar]
    /\ prev = [fs |-> EmptyFs, copied |-> 0, skipped |-> 0, failed |-> 0]
    /\ m_exit = NotExited
    /\ killed = 0

VerifierIdle ==
    /\ v_pc = "idle"
    /\ verified_count = 0
    /\ missing_count = 0
    /\ corrupted_count = 0
    /\ v_errors = <<>>
    /\ safe = FALSE
    /\ v_exit = NotExited

\* The analyzer starts on a source tree whose files hold any content, or have
\* vanished since the walk listed them (a dangling link).
InitScan ==
    /\ IsWalk(all_files, Contents \cup {"absent"}, 1..MaxDate, Paths)
    /\ dry_run \in BOOLEAN
    /\ fs = FsOf(all_files, {})
    /\ target_root = "nas"
    /\ files = <<>>
    /\ hash_index = EmptyIndex
    /\ total_bytes = 0
    /\ errors = <<>>
    /\ total_duplicates = 0
    /\ pc = "scan"
    /\ i = 1
    /\ manifest = NoManifest
    /\ MigratorIdle
    /\ VerifierIdle
    /\ peer = PeerIdle
    /\ ResolverIdle

NextScan ==
    \/ ScanFile
    \/ ScanEnd
    \/ DetectDuplicates
    \/ GenerateManifest

SpecScan == InitScan /\ [][NextScan]_vars


\* ================================================================ migrator

\* files_to_migrate / files_to_verify: the manifest's entries not flagged duplicate
NotDuplicate(f) == ~f.is_duplicate

\* files_to_migrate without the filter: every entry of the manifest
AllManifestFiles == manifest.files

FilesToMigrate == SelectSeq(manifest.files, NotDuplicate)

\* _create_sidecar: the document written; migrated_at is the run's time
SidecarData(e, t, at) ==
    [id |-> e.hash, original_path |-> e.source_path, target_path |-> t,
     size_bytes |-> e.size_bytes, creation_date |-> e.creation_date,
     migrated_at |-> at]

\* CheckOutcome without the skip: an existing destination is always overwritten
CheckOutcomeNoSkip(fsys, e, t) ==
    IF Exists(fsys, t) /\ ~Readable(fsys, t) THEN "raise" ELSE "copy"

\* migrate, the existence test: "skip" (the destination holds the recorded
\* digest), "copy" (absent, or another digest), "raise" (it cannot be opened)
CheckOutcome(fsys, e, t) ==
    IF Exists(fsys, t)
    THEN IF ~Readable(fsys, t) THEN "raise"
         ELSE IF VerifyFileHash(fsys, t, e.hash) THEN "skip" ELSE "copy"
    ELSE "copy"

\* shutil.copy2 raises before writing: the source cannot be opened, source and
\* destination are the same file, or the destination cannot be opened
CopyRaises(fsys, src, dst) ==
    \/ ~Readable(fsys, src)
    \/ src = dst
    \/ fsys[dst] = "locked"

\* shutil.copy2 with the ways a write can end: all bytes written, bytes damaged
\* on the way without an error, or an error part-way (a partial destination)
CopyOutcomes == {"ok", "corrupt", "partial"}
CopyFile(fsys, src, dst, outcome) ==
    [fsys EXCEPT ![dst] = IF outcome = "ok" THEN fsys[src] ELSE "garbage"]

\* the except branch of migrate's loop, ending the run instead of going on
MigrateFailAbort(e, why) ==
    /\ failed_count' = failed_count + 1
    /\ m_errors' = Append(m_errors, <<"Failed", e.source_path, why>>)
    /\ k' = k
    /\ m_pc' = "done"

\* the except branch of migrate's loop
MigrateFail(e, why) ==
    /\ failed_count' = failed_count + 1
    /\ m_errors' = Append(m_errors, <<"Failed", e.source_path, why>>)
    /\ k' = k + 1
    /\ m_pc' = "check"

\* MediaMigrator(...).migrate(): a new run, its counts at zero
StartMigrate ==
    /\ m_pc \in {"idle", "done"}
    /\ v_pc = "idle"
    /\ run < MaxRuns
    /\ run' = run + 1
    /\ prev' = [fs |-> fs, copied |-> copied_count, skipped |-> skipped_count,
                failed |-> failed_count]
    /\ copied_count' = 0
    /\ skipped_count' = 0
    /\ failed_count' = 0
    /\ m_errors' = <<>>
    /\ k' = 1
    /\ m_pc' = "check"
    /\ m_exit' = NotExited
    /\ UNCHANGED <<fs, target_root, analyzer_vars, sidecars, killed, verifier_vars,
                   peer, resolver_vars>>

MigrateCheck ==
    /\ m_pc = "check"
    /\ k <= Len(FilesToMigrate)
    /\ LET e == FilesToMigrate[k]
           t == TargetOf(target_root, e.target_path)
           o == CheckOutcome(fs, e, t)
       IN CASE o = "skip" ->
                 /\ skipped_count' = skipped_count + 1
                 /\ k' = k + 1
                 /\ UNCHANGED <<m_pc, failed_count, m_errors>>
            [] o = "copy" ->
                 /\ m_pc' = "copy"
                 /\ UNCHANGED <<k, skipped_count, failed_count, m_errors>>
            [] o = "raise" ->
                 /\ MigrateFail(e, "unreadable destination")
                 /\ UNCHANGED skipped_count
    /\ UNCHANGED <<fs, target_root, analyzer_vars, run, copied_count, sidecars, prev,
                   m_exit, killed, verifier_vars, peer, resolver_vars>>

MigrateCopy ==
    /\ m_pc = "copy"
    /\ LET e == FilesToMigrate[k]
           t == TargetOf(target_root, e.target_path)
       IN IF CopyRaises(fs, e.source_path, t)
          THEN /\ MigrateFail(e, "copy failed")
               /\ UNCHANGED fs
          ELSE \E outcome \in CopyOutcomes :
                 /\ fs' = CopyFile(fs, e.source_path, t, outcome)
                 /\ IF outcome = "partial"
                    THEN MigrateFail(e, "copy failed")
                    ELSE /\ m_pc' = "rehash"
                         /\ UNCHANGED <<k, failed_count, m_errors>>
    /\ UNCHANGED <<target_root, analyzer_vars, run, copied_count, skipped_count,
                   sidecars, prev, m_exit, killed, verifier_vars, peer,
                   resolver_vars>>

MigrateRehash ==
    /\ m_pc = "rehash"
    /\ LET e == FilesToMigrate[k]
           t == TargetOf(target_root, e.target_path)
       IN IF VerifyFileHash(fs, t, e.hash)
          THEN /\ m_pc' = "sidecar"
               /\ UNCHANGED <<k, failed_count, m_errors>>
          ELSE MigrateFail(e, "Hash verification failed")
    /\ UNCHANGED <<fs, target_root, analyzer_vars, run, copied_count, skipped_count,
                   sidecars, prev, m_exit, killed, verifier_vars, peer,
                   resolver_vars>>

MigrateSidecar ==
    /\ m_pc = "sidecar"
    /\ LET e == FilesToMigrate[k]
           t == TargetOf(target_root, e.target_path)
       IN \E written \in BOOLEAN :
            IF written
            THEN /\ sidecars' = [sidecars EXCEPT ![SidecarPath(e.target_path)] =
                                    SidecarData(e, t, run)]
                 /\ copied_count' = copied_count + 1
                 /\ k' = k + 1
                 /\ m_pc' = "check"
                 /\ UNCHANGED <<failed_count, m_errors>>
            ELSE /\ MigrateFail(e, "sidecar write failed")
                 /\ UNCHANGED <<sidecars, copied_count>>
    /\ UNCHANGED <<fs, target_root, analyzer_vars, run, skipped_count, prev,
                   m_exit, killed, verifier_vars, peer, resolver_vars>>

MigrateEnd ==
    /\ m_pc = "check"
    /\ k > Len(FilesToMigrate)
    /\ m_pc' = "done"
    /\ m_exit' = ExitStatus(FALSE)
    /\ UNCHANGED <<fs, target_root, analyzer_vars, run, k, copied_count, skipped_count,
                   failed_count, m_errors, sidecars, prev, killed, verifier_vars,
                   peer, resolver_vars>>

\* ================================================================ verifier

FilesToVerify == SelectSeq(manifest.files, NotDuplicate)

\* verify, one entry: "missing", "corrupted", "verified", or "error" (the
\* existence test or the re-hash raised)
VerifyOutcome(fsys, e, t) ==
    IF ~Exists(fsys, t) THEN "missing"
    ELSE IF ~Readable(fsys, t) THEN "error"
    ELSE IF ~VerifyFileHash(fsys, t, e.hash) THEN "corrupted"
    ELSE "verified"

\* the verdict verify prints
SafeToDelete(missing, corrupted) == missing = 0 /\ corrupted = 0

\* verify's loop over the entries from the n-th on, from the counts c
RECURSIVE VerifyFrom(_, _, _, _)
VerifyFrom(c, fsys, entries, root) ==
    IF entries = <<>> THEN c
    ELSE LET e == Head(entries)
             t == TargetOf(root, e.target_path)
             o == VerifyOutcome(fsys, e, t)
             d == CASE o = "missing" ->
                         [c EXCEPT !.missing = @ + 1,
                                   !.errors = Append(@, <<"Missing", t>>)]
                    [] o = "corrupted" ->
                         [c EXCEPT !.corrupted = @ + 1,
                                   !.errors = Append(@, <<"Corrupted", t>>)]
                    [] o = "error" ->
                         [c EXCEPT !.errors = Append(@, <<"Error", t>>)]
                    [] o = "verified" ->
                         [c EXCEPT !.verified = @ + 1]
         IN VerifyFrom(d, fsys, Tail(entries), root)

\* MigrationVerifier(...).verify(): the whole read-only pass and its verdict
Verify ==
    /\ v_pc = "idle"
    /\ m_pc \in {"idle", "done"}
    /\ LET c == VerifyFrom([verified |-> 0, missing |-> 0, corrupted |-> 0,
                            errors |-> <<>>], fs, FilesToVerify, target_root)
       IN /\ verified_count' = c.verified
          /\ missing_count' = c.missing
          /\ corrupted_count' = c.corrupted
          /\ v_errors' = c.errors
          /\ safe' = SafeToDelete(c.missing, c.corrupted)
    /\ v_pc' = "done"
    /\ v_exit' = ExitStatus(FALSE)
    /\ UNCHANGED <<fs, target_root, analyzer_vars, migrator_vars, peer, resolver_vars>>

\* ------------------------------------------------------------------ inputs

\* scan() followed by detect_duplicates() (not in dry-run) over a whole walk
RECURSIVE ScanAll(_, _, _, _)
ScanAll(st, fsys, walk, dry) ==
    IF walk = <<>> \/ st.aborted THEN st
    ELSE ScanAll(ScanOne(st, fsys, Head(walk), dry), fsys, Tail(walk), dry)

\* A destination that holds a file which cannot be opened before any run
LockedChoices == {{}, {PathOf("A", ".mp4")}}

\* The destinations the resolver gives the files of the manifests below
PlanTargets == {PathOf("A", ".mp4"), PathOf("A", ".mov"), PathOf("B", ".mp4")}

\* The migrator and the verifier start from the manifest the analyzer wrote for
\* a source tree whose files are all present; the target root is any root.
Init ==
    /\ IsWalk(all_files, Contents, {1}, PlanTargets)
    /\ dry_run \in BOOLEAN
    /\ target_root \in Roots
    /\ \E locked \in (IF target_root = SourceRoot THEN {{}} ELSE LockedChoices) :
          fs = FsOf(all_files, locked)
    /\ LET st == ScanAll(EmptyAnalyzer, fs, all_files, dry_run)
           fl == IF dry_run THEN st.files ELSE MarkDuplicates(st.files, st.hash_index)
       IN /\ files = fl
          /\ hash_index = st.hash_index
          /\ total_bytes = st.total_bytes
          /\ errors = st.errors
          /\ total_duplicates =
                IF dry_run THEN 0 ELSE CountDuplicates(st.files, st.hash_index)
          /\ manifest = ManifestOf(fl, st.total_bytes)
    /\ pc = "done"
    /\ i = Len(all_files) + 1
    /\ MigratorIdle
    /\ VerifierIdle
    /\ peer = PeerIdle
    /\ ResolverIdle

Next ==
    \/ StartMigrate
    \/ MigrateCheck
    \/ MigrateCopy
    \/ MigrateRehash
    \/ MigrateSidecar
    \/ MigrateEnd
    \/ Verify

Spec == Init /\ [][Next]_vars


\* ==================================================== two concurrent migrators

\* A second `migrate` process started on the same manifest and the same target
\* while the first may be running.  The code takes no lock and keeps no shared
\* state but the filesystem: the second process runs the same loop, with its
\* own position and counts in `peer`.

PeerEntry == FilesToMigrate[peer.k]
PeerDest == TargetOf(target_root, PeerEntry.target_path)

\* the except branch of migrate's loop, in the second process
PeerFail(e, why) ==
    [peer EXCEPT !.failed = @ + 1,
                 !.errors = Append(@, <<"Failed", e.source_path, why>>),
                 !.k = @ + 1,
                 !.pc = "check"]

PeerStart ==
    /\ peer.pc = "idle"
    /\ v_pc = "idle"
    /\ peer' = [PeerIdle EXCEPT !.pc = "check"]
    /\ UNCHANGED <<fs, target_root, analyzer_vars, migrator_vars, verifier_vars,
                   resolver_vars>>

PeerCheck ==
    /\ peer.pc = "check"
    /\ peer.k <= Len(FilesToMigrate)
    /\ LET o == CheckOutcome(fs, PeerEntry, PeerDest)
       IN peer' = CASE o = "skip" -> [peer EXCEPT !.skipped = @ + 1, !.k = @ + 1]
                    [] o = "copy" -> [peer EXCEPT !.pc = "copy"]
                    [] o = "raise" -> PeerFail(PeerEntry, "unreadable destination")
    /\ UNCHANGED <<fs, target_root, analyzer_vars, migrator_vars, verifier_vars,
                   resolver_vars>>

PeerCopy ==
    /\ peer.pc = "copy"
    /\ IF CopyRaises(fs, PeerEntry.source_path, PeerDest)
       THEN /\ peer' = PeerFail(PeerEntry, "copy failed")
            /\ UNCHANGED fs
       ELSE \E outcome \in CopyOutcomes :
              /\ fs' = CopyFile(fs, PeerEntry.source_path, PeerDest, outcome)
              /\ peer' = IF outcome = "partial"
                         THEN PeerFail(PeerEntry, "copy failed")
                         ELSE [peer EXCEPT !.pc = "rehash"]
    /\ UNCHANGED <<target_root, analyzer_vars, migrator_vars, verifier_vars,
                   resolver_vars>>

PeerRehash ==
    /\ peer.pc = "rehash"
    /\ peer' = IF VerifyFileHash(fs, PeerDest, PeerEntry.hash)
               THEN [peer EXCEPT !.pc = "sidecar"]
               ELSE PeerFail(PeerEntry, "Hash verification failed")
    /\ UNCHANGED <<fs, target_root, analyzer_vars, migrator_vars, verifier_vars,
                   resolver_vars>>

PeerSidecar ==
    /\ peer.pc = "sidecar"
    /\ \E written \in BOOLEAN :
         IF written
         THEN /\ sidecars' = [sidecars EXCEPT ![SidecarPath(PeerEntry.target_path)] =
                                 SidecarData(PeerEntry, PeerDest, run)]
              /\ peer' = [peer EXCEPT !.copied = @ + 1, !.k = @ + 1, !.pc = "check"]
         ELSE /\ peer' = PeerFail(PeerEntry, "sidecar write failed")
              /\ UNCHANGED sidecars
    /\ UNCHANGED <<fs, target_root, analyzer_vars, run, m_pc, k, copied_count,
                   skipped_count, failed_count, m_errors, prev, m_exit, killed,
                   verifier_vars,
                   resolver_vars>>

PeerEnd ==
    /\ peer.pc = "check"
    /\ peer.k > Len(FilesToMigrate)
    /\ peer' = [peer EXCEPT !.pc = "done"]
    /\ UNCHANGED <<fs, target_root, analyzer_vars, migrator_vars, verifier_vars,
                   resolver_vars>>

\* Two migrate processes on a normal-mode manifest of files of at least the
\* minimum size, and an empty target outside the source tree
InitConc ==
    /\ Init
    /\ ~dry_run
    /\ target_root # SourceRoot
    /\ Len(files) = Len(all_files)
    /\ \A p \in Paths : ~Exists(fs, TargetOf(target_root, p))

NextConc ==
    \/ StartMigrate
    \/ MigrateCheck
    \/ MigrateCopy
    \/ MigrateRehash
    \/ MigrateSidecar
    \/ MigrateEnd
    \/ PeerStart
    \/ PeerCheck
    \/ PeerCopy
    \/ PeerRehash
    \/ PeerSidecar
    \/ PeerEnd

SpecConc == InitConc /\ [][NextConc]_vars


\* ====================================================== interrupted migrators

\* The migrate process is killed (SIGKILL, power loss, the volume unmounted)
\* between two steps of its loop: nothing it had in memory survives, what it
\* wrote stays.
Interrupt ==
    /\ m_pc \in {"check", "copy", "rehash", "sidecar"}
    /\ m_pc' = "killed"
    /\ killed' = killed + 1
    /\ UNCHANGED <<fs, target_root, analyzer_vars, run, k, copied_count, skipped_count,
                   failed_count, m_errors, sidecars, prev, m_exit, verifier_vars, peer,
                   resolver_vars>>

\* The migrate process is killed inside shutil.copy2: the destination is left
\* partially written.
InterruptCopy ==
    /\ m_pc = "copy"
    /\ LET e == FilesToMigrate[k]
           t == TargetOf(target_root, e.target_path)
       IN /\ ~CopyRaises(fs, e.source_path, t)
          /\ fs' = CopyFile(fs, e.source_path, t, "partial")
    /\ m_pc' = "killed"
    /\ killed' = killed + 1
    /\ UNCHANGED <<target_root, analyzer_vars, run, k, copied_count, skipped_count,
                   failed_count, m_errors, sidecars, prev, m_exit, verifier_vars, peer,
                   resolver_vars>>

\* migrate is run again after a kill: a new MediaMigrator on the same manifest
\* and target, its counts at zero, starting at the first entry
Resume ==
    /\ m_pc = "killed"
    /\ run < MaxRuns
    /\ run' = run + 1
    /\ prev' = [fs |-> fs, copied |-> copied_count, skipped |-> skipped_count,
                failed |-> failed_count]
    /\ copied_count' = 0
    /\ skipped_count' = 0
    /\ failed_count' = 0
    /\ m_errors' = <<>>
    /\ k' = 1
    /\ m_pc' = "check"
    /\ m_exit' = NotExited
    /\ UNCHANGED <<fs, target_root, analyzer_vars, sidecars, killed, verifier_vars,
                   peer, resolver_vars>>

\* migrate runs on a normal-mode manifest and a target outside the source tree
InitResume ==
    /\ Init
    /\ ~dry_run
    /\ target_root # SourceRoot

NextResume ==
    \/ StartMigrate
    \/ MigrateCheck
    \/ MigrateCopy
    \/ MigrateRehash
    \/ MigrateSidecar
    \/ MigrateEnd
    \/ Interrupt
    \/ InterruptCopy
    \/ Resume

SpecResume == InitResume /\ [][NextResume]_vars


\* ============================================================ path resolver

\* Strings of the resolver are sequences of tokens; a token stands for a run of
\* characters that no configured key or pattern splits.
TokLen(t) ==
    CASE t = "cam" -> 3
      [] t = "era" -> 3
      [] t = "sub" -> 3
      [] t = "audio-tracks" -> 12
      [] t = "riverside" -> 9
      [] t = "dji-mic-2" -> 9
      [] t = "other" -> 5
      [] t = "rec_" -> 4
      [] t = "20240512" -> 8
      [] t = "20241345" -> 8
      [] t = ".mp4" -> 4
      [] t = ".wav" -> 4
      [] OTHER -> 1

\* len(str)
RECURSIVE StrLen(_)
StrLen(s) == IF s = <<>> THEN 0 ELSE TokLen(Head(s)) + StrLen(Tail(s))

\* str.startswith
StartsWith(s, prefix) ==
    Len(prefix) <= Len(s) /\ SubSeq(s, 1, Len(prefix)) = prefix

\* Path.name: what follows the last "/"
RECURSIVE FileName(_)
FileName(s) ==
    IF \E n \in 1..Len(s) : s[n] = "/" THEN FileName(Tail(s)) ELSE s

\* The logical paths resolved: str(self._logical_relpath(filepath))
LogicalPaths ==
    { <<"cam", "/", "x", ".mp4">>,
      <<"cam", "era", "/", "x", ".mp4">>,
      <<"cam", "/", "sub", "/", "x", ".mp4">>,
      <<"riverside", "/", "x", ".mp4">>,
      <<"other", "/", "x", ".mp4">>,
      <<"audio-tracks", "/", "rec_", "20240512", ".wav">>,
      <<"audio-tracks", "/", "rec_", "20241345", ".wav">>,
      <<"audio-tracks", "/", "rec_", ".wav">> }

\* config['devices']: source folder -> device name, in the file's order
DeviceMaps ==
    { <<>>,
      <<[key |-> <<"cam">>, name |-> "CAM"]>>,
      <<[key |-> <<"cam">>, name |-> "CAM"],
        [key |-> <<"cam", "/", "sub">>, name |-> "SUB"]>>,
      <<[key |-> <<"cam", "/", "sub">>, name |-> "SUB"],
        [key |-> <<"cam">>, name |-> "CAM"]>>,
      <<[key |-> <<"cam">>, name |-> "CAM"],
        [key |-> <<"cam", "era">>, name |-> "CAMERA"]>>,
      <<[key |-> <<"cam", "/", "x", ".mp4">>, name |-> "EXACT"],
        [key |-> <<"dji-mic-2">>, name |-> "MIC"]>>,
      <<[key |-> <<"audio-tracks">>, name |-> "TRACKS"],
        [key |-> <<"riverside">>, name |-> "RIV"]>> }

\* config['riverside']
RiversideDevice == "RIVERSIDE"
RiversideConfigs ==
    { [enabled |-> FALSE, source_patterns |-> << <<"riverside", "/", "*">> >>],
      [enabled |-> TRUE, source_patterns |-> << <<"riverside", "/", "*">> >>],
      [enabled |-> TRUE, source_patterns |-> << <<"*", ".wav">>, <<"cam", "*">> >>] }

\* config['audio_tracks']: filename_pattern is a regular expression with one
\* group of eight digits, or is not configured
AudioBase == <<"/Audio">>
AudioConfigs ==
    [extract_date_from_filename : BOOLEAN, has_pattern : BOOLEAN]

\* config['projects']
ProjectLists ==
    { <<>>,
      <<[source_path |-> <<"cam">>, target_path |-> <<"/Projects", "/", "P">>,
         preserve_structure |-> TRUE]>>,
      <<[source_path |-> <<"cam">>, target_path |-> <<"/Projects", "/", "P">>,
         preserve_structure |-> FALSE]>>,
      <<[source_path |-> <<"cam", "/", "sub">>, target_path |-> <<"/Projects", "/", "S">>,
         preserve_structure |-> TRUE],
        [source_path |-> <<"cam">>, target_path |-> <<"/Projects", "/", "P">>,
         preserve_structure |-> FALSE]>> }

Configs ==
    [devices : DeviceMaps, riverside : RiversideConfigs, audio_tracks : AudioConfigs,
     projects : ProjectLists]

NoDevice == "none"

\* ---- _determine_device

\* the key test with a bare string prefix
KeyMatchesBarePrefix(path, key) == StartsWith(path, key)

\* path_str == source_folder or path_str.startswith(source_folder + '/')
KeyMatches(path, key) == path = key \/ StartsWith(path, key \o <<"/">>)

\* sorted(items, key=len(key), reverse=True): stable, so keys of one length
\* keep the mapping's order
RECURSIVE DeviceInsert(_, _)
DeviceInsert(sorted, x) ==
    IF sorted = <<>> THEN <<x>>
    ELSE IF StrLen(x.key) > StrLen(Head(sorted).key) THEN <<x>> \o sorted
    ELSE <<Head(sorted)>> \o DeviceInsert(Tail(sorted), x)

RECURSIVE SortedDevices(_)
SortedDevices(devs) ==
    IF devs = <<>> THEN <<>>
    ELSE DeviceInsert(SortedDevices(SubSeq(devs, 1, Len(devs) - 1)), devs[Len(devs)])

\* the loop over sorted_devices: the first key that matches
RECURSIVE FirstDevice(_, _)
FirstDevice(path, devs) ==
    IF devs = <<>> THEN NoDevice
    ELSE IF KeyMatches(path, Head(devs).key) THEN Head(devs).name
    ELSE FirstDevice(path, Tail(devs))

\* self.config['devices'].get(key, default)
DeviceGet(devs, key, default) ==
    IF \E n \in 1..Len(devs) : devs[n].key = key
    THEN devs[CHOOSE n \in 1..Len(devs) : devs[n].key = key].name
    ELSE default

DetermineDevice(cfg, path) ==
    LET byKey == FirstDevice(path, SortedDevices(cfg.devices)) IN
    IF byKey # NoDevice THEN byKey
    ELSE IF /\ cfg.riverside.enabled
            /\ \E n \in 1..Len(cfg.riverside.source_patterns) :
                  FnMatch(path, cfg.riverside.source_patterns[n])
    THEN RiversideDevice
    ELSE IF StartsWith(path, <<"audio-tracks">>) /\ cfg.audio_tracks.has_pattern
    THEN DeviceGet(cfg.devices, <<"dji-mic-2">>, "AUDIO_dji-mic-2")
    ELSE NoDevice

\* ---- _extract_date_from_filename

\* datetime.strptime(date_str, "%Y%m%d"): the date, or ValueError
ParseYmd(t) ==
    IF t = "20240512" THEN [ok |-> TRUE, year |-> "2024", ymd |-> "2024-05-12"]
    ELSE [ok |-> FALSE]

\* re.search(pattern, filename): the first run of eight digits, or no match
RECURSIVE FirstDigits(_)
FirstDigits(name) ==
    IF name = <<>> THEN "none"
    ELSE IF TokLen(Head(name)) = 8 THEN Head(name)
    ELSE FirstDigits(Tail(name))

ExtractDate(name) ==
    IF FirstDigits(name) = "none" THEN [ok |-> FALSE]
    ELSE ParseYmd(FirstDigits(name))

\* ---- _determine_target_path

\* creation_date.year and strftime("%Y-%m-%d") of the d-th day
YearOf(d) == "2024"
DayOf(d) == "2024-01-0" \o ToString(d)

\* Path(path_str).relative_to(base): by path components; ValueError when base
\* is not a leading run of whole components
RelativeTo(path, base) ==
    IF path = base THEN [ok |-> TRUE, rel |-> <<>>]
    ELSE IF StartsWith(path, base \o <<"/">>)
    THEN [ok |-> TRUE, rel |-> SubSeq(path, Len(base) + 1, Len(path))]
    ELSE [ok |-> FALSE]

\* the loop over config['projects']: the first whose source_path prefixes path
RECURSIVE FirstProject(_, _)
FirstProject(path, projects) ==
    IF projects = <<>> THEN [hit |-> FALSE]
    ELSE IF StartsWith(path, Head(projects).source_path)
    THEN [hit |-> TRUE, project |-> Head(projects)]
    ELSE FirstProject(path, Tail(projects))

Resolved(p) == [raised |-> FALSE, path |-> p]
Raised == [raised |-> TRUE]

DetermineTargetPath(cfg, path, device, date) ==
    LET name == FileName(path)
        proj == FirstProject(path, cfg.projects)
        audio == cfg.audio_tracks
    IN
    IF proj.hit
    THEN IF proj.project.preserve_structure
         THEN LET r == RelativeTo(path, proj.project.source_path) IN
              IF r.ok THEN Resolved(proj.project.target_path \o r.rel) ELSE Raised
         ELSE Resolved(proj.project.target_path \o <<"/">> \o name)
    ELSE IF /\ StartsWith(path, <<"audio-tracks">>)
            /\ audio.extract_date_from_filename
            /\ ~audio.has_pattern
    THEN Raised
    ELSE IF /\ StartsWith(path, <<"audio-tracks">>)
            /\ audio.extract_date_from_filename
            /\ ExtractDate(name).ok
    THEN Resolved(AudioBase \o <<"/", ExtractDate(name).year, "/",
                                 ExtractDate(name).ymd, "/">> \o name)
    ELSE IF device # NoDevice
    THEN Resolved(<<"/Originals", "/", device, "/", YearOf(date), "/", DayOf(date), "/">>
                  \o name)
    ELSE Resolved(<<"/Originals", "/", "_unknown", "/">> \o name)

\* ---- the resolver's steps

ResolveDevice ==
    /\ r_pc = "device"
    /\ r_device' = DetermineDevice(r_cfg, r_path)
    /\ r_pc' = "target"
    /\ UNCHANGED <<fs, target_root, analyzer_vars, migrator_vars, verifier_vars, peer,
                   r_cfg, r_path, r_date, r_target>>

ResolveTarget ==
    /\ r_pc = "target"
    /\ LET t == DetermineTargetPath(r_cfg, r_path, r_device, r_date) IN
       IF t.raised
       THEN /\ r_pc' = "raised"
            /\ UNCHANGED r_target
       ELSE /\ r_pc' = "done"
            /\ r_target' = t.path
    /\ UNCHANGED <<fs, target_root, analyzer_vars, migrator_vars, verifier_vars, peer,
                   r_cfg, r_path, r_date, r_device>>

\* The resolver is called for one file under one configuration.
InitResolve ==
    /\ r_cfg \in Configs
    /\ r_path \in LogicalPaths
    /\ r_date \in 1..MaxDate
    /\ r_pc = "device"
    /\ r_device = NoDevice
    /\ r_target = <<>>
    /\ fs = EmptyFs
    /\ target_root = "nas"
    /\ all_files = <<>>
    /\ dry_run = FALSE
    /\ files = <<>>
    /\ hash_index = EmptyIndex
    /\ total_bytes = 0
    /\ errors = <<>>
    /\ total_duplicates = 0
    /\ pc = "scan"
    /\ i = 1
    /\ manifest = NoManifest
    /\ MigratorIdle
    /\ VerifierIdle
    /\ peer = PeerIdle

NextResolve ==
    \/ ResolveDevice
    \/ ResolveTarget

SpecResolve == InitResolve /\ [][NextResolve]_vars


\* ================================================================== claims

\* The step-wise scan ends in the state ScanAll computes (the manifests Init
\* draws are the ones SpecScan reaches).
ScanAgreesWithFold ==
    pc \in {"detect", "manifest", "done"} =>
        LET st == ScanAll(EmptyAnalyzer, fs, all_files, dry_run) IN
        /\ ~st.aborted
        /\ hash_index = st.hash_index
        /\ total_bytes = st.total_bytes
        /\ errors = st.errors
        /\ pc = "detect" => files = st.files

\* ---- analyzer (SpecScan)

Members(g) == {g[n] : n \in 1..Len(g)}

\* C1: after detect_duplicates, every digest shared by two or more entries has
\* exactly one member (the primary) with is_duplicate = FALSE and all others
\* TRUE; an entry whose digest no other entry shares has is_duplicate = FALSE.
C1_ExactlyOnePrimaryPerGroup ==
    (pc \in {"manifest", "done"} /\ ~dry_run) =>
        \A h \in Digests :
            LET g == hash_index[h] IN
            /\ Len(g) >= 2 =>
                  Cardinality({n \in Members(g) : ~files[n].is_duplicate}) = 1
            /\ Len(g) = 1 => ~files[g[1]].is_duplicate

\* The score the specification gives an entry: the number of priority patterns
\* minus the index (from 0) of the first pattern its destination matches; 0
\* when none matches.
SpecScore(mf) ==
    LET hits == {n \in 1..Len(PriorityPatterns) :
                    FnMatch(mf.target_path, PriorityPatterns[n])}
    IN IF hits = {} THEN 0
       ELSE Len(PriorityPatterns) - ((CHOOSE n \in hits : \A m \in hits : n <= m) - 1)

\* p is first among the members of g by (score descending, creation date
\* ascending, position in g)
FirstInOrder(fl, g, p) ==
    \E n \in 1..Len(g) :
        /\ g[n] = p
        /\ \A m \in 1..Len(g) :
              m # n =>
                \/ SpecScore(fl[p]) > SpecScore(fl[g[m]])
                \/ /\ SpecScore(fl[p]) = SpecScore(fl[g[m]])
                   /\ fl[p].creation_date < fl[g[m]].creation_date
                \/ /\ SpecScore(fl[p]) = SpecScore(fl[g[m]])
                   /\ fl[p].creation_date = fl[g[m]].creation_date
                   /\ n < m

\* C7: the primary of a duplicate group is the first entry by (priority score
\* descending, creation date ascending, input order), the score being the
\* number of patterns minus the index of the first matching pattern and 0 when
\* none matches; so a member matching a pattern wins over every member that
\* matches none, whatever their dates.
C7_PrimaryIsFirstByScoreDateOrder ==
    \A h \in Digests :
        LET g == hash_index[h] IN
        Len(g) >= 2 =>
            LET p == SelectPrimary(files, g) IN
            /\ FirstInOrder(files, g, p)
            /\ (\E n \in Members(g) : SpecScore(files[n]) > 0) =>
                  SpecScore(files[p]) > 0

\* C7 witness: a group whose primary matches a priority pattern and was created
\* later than a member, scanned before it, that matches none.
C7_Witness ==
    /\ pc = "manifest"
    /\ \E h \in Digests :
          LET g == hash_index[h] IN
          /\ Len(g) >= 2
          /\ SelectPrimary(files, g) = g[2]
          /\ SpecScore(files[g[2]]) > 0
          /\ SpecScore(files[g[1]]) = 0
          /\ files[g[2]].creation_date > files[g[1]].creation_date

\* every order in which scan may have appended the members of g
Orders(g) ==
    {q \in [1..Len(g) -> Members(g)] : \A a, b \in 1..Len(g) : a # b => q[a] # q[b]}

\* C8: for the same members of a duplicate group, every order in which the scan
\* may have appended them yields the same primary.
C8_PrimaryIndependentOfScanOrder ==
    \A h \in Digests :
        LET g == hash_index[h] IN
        Len(g) >= 2 =>
            \A q \in Orders(g) : SelectPrimary(files, q) = SelectPrimary(files, g)

\* C9: no file smaller than the minimum size is an entry of the plan, in normal
\* and in dry-run mode alike, and none is counted in the plan's totals.
C9_NoEntryBelowMinSize ==
    /\ \A n \in 1..Len(files) : files[n].size_bytes >= MinSizeBytes
    /\ \A n \in 1..Len(manifest.files) : manifest.files[n].size_bytes >= MinSizeBytes
    /\ total_bytes >= Len(files) * MinSizeBytes

\* C10 (scan): a file that cannot be read does not abort the scan: the scan goes
\* on to the end of the walk and the error is in the error list.
C10_ScanErrorNeverAborts ==
    /\ pc # "aborted"
    /\ pc \in {"detect", "manifest", "done"} =>
          \A n \in 1..Len(all_files) :
              ~Exists(fs, SourceOf(all_files[n])) =>
                  \E m \in 1..Len(errors) : errors[m][2] = SourceOf(all_files[n])


\* ---- migrator and verifier (Spec)

DestOf(e) == TargetOf(target_root, e.target_path)

\* the destination of e holds the bytes of e's recorded digest
DestHoldsDigest(fsys, e) ==
    /\ Readable(fsys, DestOf(e))
    /\ "b3:" \o fsys[DestOf(e)] = e.hash

\* no source file has been deleted or changed since the walk
SourcesIntact ==
    \A n \in 1..Len(all_files) : fs[SourceOf(all_files[n])] = all_files[n].content

\* C2: a second migrate run against the same plan and target, with the sources
\* unchanged, leaves the destination as the first run left it, copies nothing
\* and counts every non-duplicate entry skipped-identical.  Stated for the runs
\* the claim is about: nothing failed in the first run or in the second.
C2_SecondRunCopiesNothing ==
    (/\ run >= 2
     /\ m_pc = "done"
     /\ prev.failed = 0
     /\ failed_count = 0
     /\ SourcesIntact) =>
        /\ \A p \in Paths :
              fs[TargetOf(target_root, p)] = prev.fs[TargetOf(target_root, p)]
        /\ copied_count = 0
        /\ skipped_count = Len(FilesToMigrate)

\* C3: verify asserts "safe to delete source" only when every non-duplicate
\* entry's destination exists and re-hashed to the recorded digest; an entry
\* whose check raised prevents the assertion.
C3_SafeOnlyWhenEveryEntryVerified ==
    (v_pc = "done" /\ safe) =>
        \A n \in 1..Len(FilesToVerify) : DestHoldsDigest(fs, FilesToVerify[n])

\* C4: when migrate reaches a non-duplicate entry whose destination exists and
\* hashes to the recorded digest, the entry is counted skipped-identical, the
\* destination is not written and no sidecar is created or rewritten: the run
\* moves to the next entry without passing the copy.
C4_IdenticalDestinationIsSkipped ==
    [][(/\ m_pc = "check"
        /\ k <= Len(FilesToMigrate)
        /\ DestHoldsDigest(fs, FilesToMigrate[k]))
       => /\ skipped_count' = skipped_count + 1
          /\ copied_count' = copied_count
          /\ failed_count' = failed_count
          /\ fs' = fs
          /\ sidecars' = sidecars
          /\ m_pc' = "check"
          /\ k' = k + 1]_vars

\* C4 witness: a run has skipped an entry whose destination holds the recorded
\* digest and for which no sidecar exists.
C4_Witness ==
    /\ m_pc = "check"
    /\ k = 2
    /\ skipped_count = 1
    /\ DestHoldsDigest(fs, FilesToMigrate[1])
    /\ sidecars[SidecarPath(FilesToMigrate[1].target_path)] = NoSidecar

\* C5: a copied entry's sidecar is written only after the destination has been
\* re-hashed and matches the recorded digest; when the re-hash mismatches the
\* entry is counted failed, no sidecar is written, the destination is left as
\* it is and the run moves on without copying again.
C5_SidecarOnlyAfterMatchingRehash ==
    [][/\ (m_pc' = "sidecar" /\ m_pc # "sidecar") =>
              /\ m_pc = "rehash"
              /\ DestHoldsDigest(fs, FilesToMigrate[k])
       /\ sidecars' # sidecars =>
              /\ m_pc = "sidecar"
              /\ DestHoldsDigest(fs, FilesToMigrate[k])
              /\ copied_count' = copied_count + 1
       /\ (m_pc = "rehash" /\ ~DestHoldsDigest(fs, FilesToMigrate[k])) =>
              /\ failed_count' = failed_count + 1
              /\ copied_count' = copied_count
              /\ sidecars' = sidecars
              /\ fs' = fs
              /\ m_pc' = "check"
              /\ k' = k + 1]_vars

\* C5 witness: an existing destination with another digest was overwritten, the
\* re-hash after the copy mismatched, the entry was counted failed, the
\* destination is still there and the entry has no sidecar.
C5_Witness ==
    /\ run = 2
    /\ m_pc = "check"
    /\ k = 2
    /\ failed_count = 1
    /\ Exists(prev.fs, DestOf(FilesToMigrate[1]))
    /\ m_errors[1][3] = "Hash verification failed"
    /\ fs[DestOf(FilesToMigrate[1])] = "garbage"
    /\ sidecars[SidecarPath(FilesToMigrate[1].target_path)] = NoSidecar

\* C6: no migrate run, for any plan and any target root, deletes a source file
\* or changes its content.
C6_MigrateNeverChangesSource ==
    SourcesIntact

\* C11: the migrate process ends with a non-zero exit status whenever its run
\* counted a failed entry, and the verify process ends with a non-zero exit
\* status whenever its run counted a missing or a corrupted entry.
C11_FailuresGiveNonZeroExit ==
    /\ (m_pc = "done" /\ failed_count > 0) => m_exit # 0
    /\ (v_pc = "done" /\ (missing_count > 0 \/ corrupted_count > 0)) => v_exit # 0

\* ---- concurrent migrators (SpecConc)

\* this step is a copy by the first / the second process that writes p
MainWrites(p) ==
    /\ m_pc = "copy"
    /\ m_pc' # "copy" \/ k' # k
    /\ p = DestOf(FilesToMigrate[k])
    /\ ~CopyRaises(fs, FilesToMigrate[k].source_path, p)

PeerWrites(p) ==
    /\ peer.pc = "copy"
    /\ peer' # peer
    /\ p = PeerDest
    /\ ~CopyRaises(fs, PeerEntry.source_path, p)

\* C12: while one migrate run is between its existence check and the end of its
\* post-copy re-hash for a destination, the other run does not write that
\* destination.
C12_NoInterleavedWrites ==
    [][\A p \in AbsPaths :
          /\ PeerWrites(p) =>
                ~(m_pc \in {"copy", "rehash"} /\ DestOf(FilesToMigrate[k]) = p)
          /\ MainWrites(p) =>
                ~(peer.pc \in {"copy", "rehash"} /\ PeerDest = p)]_vars

\* ---- migrator and verifier (Spec), continued

\* C13: when the sidecar write fails after a copy whose re-hash matched, the
\* copy is not rolled back: the destination keeps the recorded content, the
\* entry is counted failed and the run goes on to the next entry.
C13_SidecarFailureKeepsCopy ==
    [][(m_pc = "sidecar" /\ failed_count' # failed_count) =>
          /\ DestHoldsDigest(fs, FilesToMigrate[k])
          /\ fs' = fs
          /\ failed_count' = failed_count + 1
          /\ copied_count' = copied_count
          /\ k' = k + 1
          /\ m_pc' = "check"]_vars

\* C13 witness: the first of two entries was copied, its sidecar write failed,
\* its destination holds the recorded content and the run is at the second.
C13_Witness ==
    /\ m_pc = "check"
    /\ k = 2
    /\ Len(FilesToMigrate) = 2
    /\ failed_count = 1
    /\ m_errors[1][3] = "sidecar write failed"
    /\ DestHoldsDigest(fs, FilesToMigrate[1])
    /\ sidecars[SidecarPath(FilesToMigrate[1].target_path)] = NoSidecar

\* the non-duplicate entries of the plan have pairwise distinct destinations
DistinctDestinations ==
    \A n, m \in 1..Len(FilesToMigrate) :
        n # m => FilesToMigrate[n].target_path # FilesToMigrate[m].target_path

\* C14: every entry a run counted as copied has a sidecar of its own whose id
\* is the entry's digest, and no two distinct migrated entries share a sidecar
\* file.  Stated for a run that counted every entry copied, over a plan whose
\* destinations are pairwise distinct.
C14_OneSidecarPerMigratedFile ==
    (/\ m_pc = "done"
     /\ run >= 1
     /\ failed_count = 0
     /\ skipped_count = 0
     /\ DistinctDestinations) =>
        /\ \A n \in 1..Len(FilesToMigrate) :
              LET e == FilesToMigrate[n] IN
              /\ sidecars[SidecarPath(e.target_path)].id = e.hash
              /\ sidecars[SidecarPath(e.target_path)].original_path = e.source_path
        /\ \A n, m \in 1..Len(FilesToMigrate) :
              n # m => SidecarPath(FilesToMigrate[n].target_path) #
                       SidecarPath(FilesToMigrate[m].target_path)

\* ---- path resolver (SpecResolve)

\* the key is the whole logical path, or is followed in it by "/"
AtFolderBoundary(path, key) ==
    /\ Len(key) <= Len(path)
    /\ \A n \in 1..Len(key) : path[n] = key[n]
    /\ Len(path) > Len(key) => path[Len(key) + 1] = "/"

\* The device the specification gives: the longest key of the devices mapping
\* that matches at a folder boundary; else the Riverside label when the rule is
\* enabled and a pattern matches; else the mic label when the path starts with
\* audio-tracks and a filename pattern is configured; else none.
SpecDevice(cfg, path) ==
    LET devs == cfg.devices
        hits == {n \in 1..Len(devs) : AtFolderBoundary(path, devs[n].key)}
        mics == {n \in 1..Len(devs) : devs[n].key = <<"dji-mic-2">>}
    IN
    IF hits # {}
    THEN devs[CHOOSE n \in hits :
                 \A m \in hits : StrLen(devs[n].key) >= StrLen(devs[m].key)].name
    ELSE IF /\ cfg.riverside.enabled
            /\ \E n \in 1..Len(cfg.riverside.source_patterns) :
                  FnMatch(path, cfg.riverside.source_patterns[n])
    THEN RiversideDevice
    ELSE IF path[1] = "audio-tracks" /\ cfg.audio_tracks.has_pattern
    THEN IF mics = {} THEN "AUDIO_dji-mic-2" ELSE devs[CHOOSE n \in mics : TRUE].name
    ELSE NoDevice

\* C15: the device of a file is the result of the first rule that hits: the
\* devices mapping, longest key first, a key matching only at a folder boundary
\* (never as a bare string prefix); then the Riverside rule; then the
\* audio-tracks rule; otherwise no device.
C15_DeviceIsFirstRuleThatHits ==
    r_pc \in {"target", "done", "raised"} =>
        /\ r_device = SpecDevice(r_cfg, r_path)
        /\ \A n \in 1..Len(r_cfg.devices) :
              (/\ StartsWith(r_path, r_cfg.devices[n].key)
               /\ ~AtFolderBoundary(r_path, r_cfg.devices[n].key)
               /\ \A m \in 1..Len(r_cfg.devices) :
                     m # n => ~AtFolderBoundary(r_path, r_cfg.devices[m].key))
              => r_device # r_cfg.devices[n].name

\* C15 witness: the path camera/x.mp4 resolved under a mapping whose only key
\* is cam, with no other rule hitting: the bare prefix gives no device.
C15_Witness ==
    /\ r_pc = "done"
    /\ r_path = <<"cam", "era", "/", "x", ".mp4">>
    /\ r_cfg.devices = <<[key |-> <<"cam">>, name |-> "CAM"]>>
    /\ ~r_cfg.riverside.enabled
    /\ r_device = NoDevice

\* The destination the specification gives: the first project whose prefix the
\* path starts with (structure-preserving: target / what follows the prefix;
\* otherwise target / filename); else the audio-tracks date rule when a date is
\* extracted; else /Originals/<device>/<year>/<year-mm-dd>/filename when the
\* device is known; else /Originals/_unknown/filename.
SpecTarget(cfg, path, device, date) ==
    LET name == FileName(path)
        hits == {n \in 1..Len(cfg.projects) :
                    StartsWith(path, cfg.projects[n].source_path)}
        first == CHOOSE n \in hits : \A m \in hits : n <= m
    IN
    IF hits # {}
    THEN IF cfg.projects[first].preserve_structure
         THEN cfg.projects[first].target_path \o
              SubSeq(path, Len(cfg.projects[first].source_path) + 1, Len(path))
         ELSE cfg.projects[first].target_path \o <<"/">> \o name
    ELSE IF /\ path[1] = "audio-tracks"
            /\ cfg.audio_tracks.extract_date_from_filename
            /\ \E n \in 1..Len(name) : name[n] = "20240512"
    THEN AudioBase \o <<"/", "2024", "/", "2024-05-12", "/">> \o name
    ELSE IF device # NoDevice
    THEN <<"/Originals", "/", device, "/", YearOf(date), "/", DayOf(date), "/">> \o name
    ELSE <<"/Originals", "/", "_unknown", "/">> \o name

\* the configuration has a filename pattern whenever date extraction is enabled
PatternConfigured ==
    r_cfg.audio_tracks.extract_date_from_filename => r_cfg.audio_tracks.has_pattern

\* C16: the destination of a file is the result of the first rule that hits
\* (project, audio-tracks date, device and date, unknown), a malformed or absent
\* date falling through without an error, and resolution never raises for any
\* logical path.
C16_TargetIsFirstRuleThatHits ==
    PatternConfigured =>
        /\ r_pc # "raised"
        /\ r_pc = "done" => r_target = SpecTarget(r_cfg, r_path, r_device, r_date)

\* the number of the plan's entries that are not flagged duplicate
NonDuplicateCount ==
    Cardinality({n \in 1..Len(manifest.files) : ~manifest.files[n].is_duplicate})

\* C17: in a migrate run every non-duplicate entry ends in exactly one of
\* copied, skipped-identical or failed: the three counts add up to the entries
\* passed so far and, at the end of the run, to the number of non-duplicate
\* entries; an entry flagged duplicate is never copied and adds to no count.
C17_CountsPartitionNonDuplicates ==
    [][/\ m_pc' \in {"check", "done"} =>
             copied_count' + skipped_count' + failed_count' =
                 (IF m_pc' = "done" THEN NonDuplicateCount ELSE k' - 1)
       /\ <<copied_count', skipped_count', failed_count'>> #
             <<copied_count, skipped_count, failed_count>> /\ m_pc # "idle" /\ m_pc # "done" =>
             /\ copied_count' + skipped_count' + failed_count' =
                   copied_count + skipped_count + failed_count + 1
             /\ copied_count' >= copied_count
             /\ skipped_count' >= skipped_count
             /\ failed_count' >= failed_count
       /\ fs' # fs =>
             \E n \in 1..Len(manifest.files) :
                LET e == manifest.files[n] IN
                /\ ~e.is_duplicate
                /\ fs' = [fs EXCEPT ![DestOf(e)] = fs'[DestOf(e)]]
                /\ fs'[DestOf(e)] \in {fs[e.source_path], "garbage"}]_vars

\* C17 witness: a run over two non-duplicate entries has ended with one entry
\* skipped-identical and the other copied.
C17_Witness ==
    /\ m_pc = "done"
    /\ NonDuplicateCount = 2
    /\ skipped_count = 1
    /\ copied_count = 1
    /\ failed_count = 0

\* C18: verify classifies every non-duplicate entry as exactly one of missing,
\* corrupted or verified: at the end of the run the three counts add up to the
\* number of non-duplicate entries, an entry being missing when its destination
\* is absent, verified when the destination holds the recorded digest and
\* corrupted otherwise.
C18_VerifyCountsPartitionNonDuplicates ==
    v_pc = "done" =>
        /\ verified_count + missing_count + corrupted_count = NonDuplicateCount
        /\ missing_count =
              Cardinality({n \in 1..Len(FilesToVerify) :
                              ~Exists(fs, DestOf(FilesToVerify[n]))})
        /\ verified_count =
              Cardinality({n \in 1..Len(FilesToVerify) :
                              DestHoldsDigest(fs, FilesToVerify[n])})

\* ---- path resolver (SpecResolve), continued

\* C19: two distinct files of a plan never resolve to one destination path (so
\* that the writes of a migrate run touch disjoint paths): whatever other file
\* of the tree is resolved under the same configuration, its destination is
\* not the destination of this one.
C19_DistinctFilesDistinctDestinations ==
    r_pc = "done" =>
        \A q \in LogicalPaths \ {r_path} : \A d \in 1..MaxDate :
            LET t == DetermineTargetPath(r_cfg, q, DetermineDevice(r_cfg, q), d) IN
            t.raised \/ t.path # r_target

\* ---- migrator and verifier (Spec), continued

\* the content digests that occur in the plan
PlanDigests == {manifest.files[n].hash : n \in 1..Len(manifest.files)}

\* some file below the target root holds the bytes of digest h
HeldAtDestination(h) ==
    \E p \in Paths :
        /\ Readable(fs, TargetOf(target_root, p))
        /\ "b3:" \o fs[TargetOf(target_root, p)] = h

\* C20: for every content digest of a normal-mode plan exactly one entry with
\* that digest is selected for migration; hence after a migrate run that ends
\* with failed = 0 every digest of the plan is held by a destination file, and
\* whenever verify asserts "safe to delete source" no content exists only at
\* the source.
C20_OneEntryPerDigestMigrated ==
    ~dry_run =>
        /\ \A h \in PlanDigests :
              Cardinality({n \in 1..Len(manifest.files) :
                              /\ manifest.files[n].hash = h
                              /\ ~manifest.files[n].is_duplicate}) = 1
        /\ (m_pc = "done" /\ failed_count = 0) =>
              \A h \in PlanDigests : HeldAtDestination(h)
        /\ (v_pc = "done" /\ safe) =>
              \A h \in PlanDigests : HeldAtDestination(h)

\* ---- interrupted migrators (SpecResume)

\* C21: migration is resumable: when a migrate run was killed at any point
\* (between entries, or inside a copy, leaving a partially written
\* destination) and migrate is then re-run to its end without a failed entry and
\* with the sources unchanged, every non-duplicate entry's destination holds
\* the entry's recorded digest; and a partially written destination is never
\* counted skipped-identical.
C21_ResumedRunCompletesMigration ==
    [][/\ (/\ killed' >= 1
           /\ m_pc' = "done"
           /\ failed_count' = 0
           /\ SourcesIntact') =>
              \A n \in 1..Len(FilesToMigrate) : DestHoldsDigest(fs', FilesToMigrate[n])
       /\ (/\ m_pc = "check"
           /\ k <= Len(FilesToMigrate)
           /\ fs[DestOf(FilesToMigrate[k])] = "garbage") =>
              /\ skipped_count' = skipped_count
              /\ m_pc' \in {"copy", "killed"}]_vars

\* ---- migrator and verifier (Spec), continued

\* C22: when a migrate run has ended with failed = 0, the sources are as they
\* were and nothing else has changed the target, the verify that follows on the same
\* plan and target reports missing = 0 and corrupted = 0, with verified equal
\* to the number of non-duplicate entries.
C22_CleanMigrateThenCleanVerify ==
    (/\ run >= 1
     /\ m_pc = "done"
     /\ failed_count = 0
     /\ SourcesIntact
     /\ v_pc = "done") =>
        /\ missing_count = 0
        /\ corrupted_count = 0
        /\ verified_count = NonDuplicateCount

====
